---- MODULE Spec2Model ----
(***************************************************************************)
(* State-machine model of the to-do web application (src/app.py,           *)
(* src/forms.py, src/models.py).                                           *)
(*                                                                         *)
(* One action per route.  Every route action is the whole request: the     *)
(* anti-forgery before_request hook installed by CSRFProtect(app), the     *)
(* before_request hook load_logged_in_user_and_check_timeout, the          *)
(* login_required wrapper (protected routes) and the view function body.   *)
(* For every route an operator of the view function's name gives the set   *)
(* of results the request can have in the current state (the session it    *)
(* leaves, the tables it leaves, the response); the route's action applies *)
(* one of them.                                                            *)
(*                                                                         *)
(* session is the session of one browser; resp is the outcome of the last  *)
(* request; inflight holds the requests that are served concurrently, each *)
(* between its query and its commit.  Time is counted in whole minutes.  Text is a sequence of      *)
(* characters.  An optional value (None or a value) is <<>> or <<v>>.      *)
(***************************************************************************)
EXTENDS Integers, Sequences, FiniteSets, TLC

VARIABLES now, users, tasks, session, resp, inflight

vars == <<now, users, tasks, session, resp, inflight>>

----------------------------------------------------------------------------
(* Bounds of the model *)

MaxTime == 21
MaxTasks == 1

----------------------------------------------------------------------------
(* Program constants *)

idle_timeout_minutes == 20
per_page == 5
UsernameMin == 3
UsernameMax == 25
PasswordMin == 6
TitleMax == 120
DescriptionMax == 1000
MinDueDate == 730120

----------------------------------------------------------------------------
(* Values *)

None == <<>>
Some(v) == <<v>>
Val(o) == o[1]

Str(ch, n) == [i \in 1..n |-> ch]

IsBlank(s) == \A i \in 1..Len(s) : s[i] = " "

TickSteps == {20, 21}

(* datetime.isoformat / datetime.fromisoformat: the session stores text *)
isoformat(t) == [text |-> "iso", t |-> t]

fromisoformat(s) ==
    IF s.text = "iso" THEN [ok |-> TRUE, dt |-> s.t] ELSE [ok |-> FALSE, dt |-> 0]

(* Python truthiness of session.get("user_id") *)
Truthy(o) == o # None /\ Val(o) # 0

----------------------------------------------------------------------------
(* src/models.py *)

Salts == {"salt1"}

generate_password_hash(password, salt) ==
    [method |-> "scrypt", salt |-> salt, digest |-> <<salt, password>>]

check_password_hash(pwhash, password) ==
    pwhash.digest = <<pwhash.salt, password>>

(* A password check that accepts every password *)
check_password_AnyPassword(user, password) == TRUE

check_password(user, password) == check_password_hash(user.password_hash, password)

Max(S) == CHOOSE x \in S : \A y \in S : y <= x

(* INTEGER PRIMARY KEY of SQLite: largest stored id plus one *)
NextId(rows) == IF rows = {} THEN 1 ELSE Max({r.id : r \in rows}) + 1

NewUser(username, password, salt) ==
    [id |-> NextId(users), username |-> username,
     password_hash |-> generate_password_hash(password, salt)]

(* The value the UPDATE leaves in a column: the unit of work writes the *)
(* columns whose value differs from the loaded one, and no other        *)
Col(edited, loaded, stored) == IF edited # loaded THEN edited ELSE stored

(* An UPDATE that writes every column of the row *)
Merge_WholeRow(stored, loaded, edited) == edited

(* The row after the UPDATE that db.session.commit() emits for an object *)
(* that was loaded as `loaded` and then assigned to give `edited`        *)
Merge(stored, loaded, edited) ==
    [id |-> stored.id,
     title |-> Col(edited.title, loaded.title, stored.title),
     description |-> Col(edited.description, loaded.description, stored.description),
     priority |-> Col(edited.priority, loaded.priority, stored.priority),
     is_completed |-> Col(edited.is_completed, loaded.is_completed, stored.is_completed),
     created_at |-> Col(edited.created_at, loaded.created_at, stored.created_at),
     completed_at |-> Col(edited.completed_at, loaded.completed_at, stored.completed_at),
     due_date |-> Col(edited.due_date, loaded.due_date, stored.due_date),
     user_id |-> Col(edited.user_id, loaded.user_id, stored.user_id)]

(* db.session.commit() of an edited task: the task table after the UPDATE *)
(* of the row with the task's id                                          *)
Flush(loaded, edited) ==
    {IF s.id = loaded.id THEN Merge(s, loaded, edited) ELSE s : s \in tasks}

(* A new task that is stored as completed *)
NewTask_Completed(title, description, priority, due_date, user_id) ==
    [id |-> NextId(tasks), title |-> title, description |-> description,
     priority |-> priority, is_completed |-> TRUE, created_at |-> now,
     completed_at |-> Some(now), due_date |-> due_date, user_id |-> user_id]

NewTask(title, description, priority, due_date, user_id) ==
    [id |-> NextId(tasks), title |-> title, description |-> description,
     priority |-> priority, is_completed |-> FALSE, created_at |-> now,
     completed_at |-> None, due_date |-> due_date, user_id |-> user_id]

(* A lookup that finds no user *)
UserByName_None(username) == {}

(* User.query.filter_by(username=...).first() *)
UserByName(username) == {u \in users : u.username = username}

(* unique=True of User.username: the insert of a second row with the *)
(* username fails at commit                                           *)
IntegrityError(username) == \E u \in users : u.username = username

(* User.query.get(user_id) *)
UserById(id) == {u \in users : u.id = id}

(* The lookup by id alone, without the owner *)
OwnedTask_AnyOwner(task_id, user_id) == {t \in tasks : t.id = task_id}

(* Task.query.filter_by(id=task_id, user_id=g.user.id).first_or_404() *)
OwnedTask(task_id, user_id) == {t \in tasks : t.id = task_id /\ t.user_id = user_id}

----------------------------------------------------------------------------
(* src/forms.py *)

DataRequired(s) == Len(s) > 0 /\ ~IsBlank(s)

Length(s, min, max) == Len(s) >= min /\ (max = -1 \/ Len(s) <= max)

RegistrationFormValid(f) ==
    /\ DataRequired(f.username) /\ Length(f.username, UsernameMin, UsernameMax)
    /\ DataRequired(f.password) /\ Length(f.password, PasswordMin, -1)
    /\ DataRequired(f.confirm_password) /\ f.confirm_password = f.password

LoginFormValid(f) == DataRequired(f.username) /\ DataRequired(f.password)

Priorities == {"Low", "Medium", "High"}

(* DateField(format="%Y-%m-%d").process: the data starts as the bound    *)
(* object's value (None on the create form); a field that is not          *)
(* submitted leaves it; submitted text that strptime rejects (the empty   *)
(* text included) is a processing error.                                 *)
DateFieldProcess(raw, objdata) ==
    IF raw = None THEN [ok |-> TRUE, data |-> objdata]
    ELSE IF Val(raw).text = "date" THEN [ok |-> TRUE, data |-> Some(Val(raw).day)]
    ELSE [ok |-> FALSE, data |-> None]

(* Form.validate: every field's validators *)
FieldsValid(f, objdue) ==
    /\ DataRequired(f.title) /\ Length(f.title, 0, TitleMax)
    /\ Length(f.description, 0, DescriptionMax)
    /\ f.priority \in Priorities
    /\ DateFieldProcess(f.due_date, objdue).ok

(* TaskForm.validate *)
TaskFormValid(f, objdue) ==
    IF ~FieldsValid(f, objdue) THEN FALSE
    ELSE LET d == DateFieldProcess(f.due_date, objdue).data
         IN  IF d # None /\ Val(d) < MinDueDate THEN FALSE ELSE TRUE

(* A submission that is taken as valid whatever the validators say *)
validate_on_submit_Unchecked(method, valid) == method = "POST"

(* FlaskForm.validate_on_submit *)
validate_on_submit(method, valid) == method = "POST" /\ valid

----------------------------------------------------------------------------
(* Inputs *)

Methods == {"GET", "POST"}

Usernames == {Str("a", 3), Str("b", 3)}
Passwords == {Str("p", 6), Str("q", 6)}

RegistrationInputs ==
    [username : Usernames, password : {Str("p", 6)}, confirm_password : {Str("p", 6)}]
    \cup { [username |-> Str("a", 2), password |-> Str("p", 6), confirm_password |-> Str("p", 6)],
           [username |-> Str("a", 26), password |-> Str("p", 6), confirm_password |-> Str("p", 6)],
           [username |-> Str(" ", 3), password |-> Str("p", 6), confirm_password |-> Str("p", 6)],
           [username |-> Str("a", 3), password |-> Str("p", 5), confirm_password |-> Str("p", 5)],
           [username |-> Str("a", 3), password |-> Str("p", 6), confirm_password |-> Str("q", 6)],
           [username |-> Str("a", 3), password |-> Str("p", 6), confirm_password |-> <<>>] }

LoginInputs ==
    [username : Usernames, password : Passwords, remember_me : BOOLEAN]
    \cup { [username |-> <<>>, password |-> Str("p", 6), remember_me |-> FALSE],
           [username |-> Str("a", 3), password |-> <<>>, remember_me |-> FALSE] }

DateText(d) == Some([text |-> "date", day |-> d])
BlankText == Some([text |-> "blank", day |-> 0])
JunkText == Some([text |-> "junk", day |-> 0])

ValidTaskInputs ==
    [title : {Str("A", 1)}, description : {<<>>}, priority : {"Medium"},
     due_date : {None}, is_completed : BOOLEAN]

BaseTaskInput ==
    [title |-> Str("A", 1), description |-> <<>>, priority |-> "Medium",
     due_date |-> None, is_completed |-> TRUE]

InvalidTaskInputs ==
    { [BaseTaskInput EXCEPT !.title = <<>>],
      [BaseTaskInput EXCEPT !.title = Str("x", TitleMax + 1)],
      [BaseTaskInput EXCEPT !.description = Str("d", DescriptionMax + 1)],
      [BaseTaskInput EXCEPT !.priority = "Urgent"],
      [BaseTaskInput EXCEPT !.due_date = BlankText],
      [BaseTaskInput EXCEPT !.due_date = JunkText],
      [BaseTaskInput EXCEPT !.due_date = DateText(MinDueDate - 1)] }

TaskInputs == ValidTaskInputs \cup InvalidTaskInputs

TaskIds == 1..(MaxTasks + 1)

StatusParams == {"all", "completed", "incomplete"}
SearchParams == {None, Some(Str("a", 1))}
PageParams == {1, 2}

(* What a request of the given method can carry *)
FormOf(method, inputs) == IF method = "GET" THEN {None} ELSE {Some(f) : f \in inputs}
TokenOf(method) == IF method = "GET" THEN {FALSE} ELSE BOOLEAN

----------------------------------------------------------------------------
(* Session and responses *)

EmptySession == [user_id |-> None, last_activity |-> None, permanent |-> FALSE]

FlashArg(category, message, arg) ==
    Some([category |-> category, message |-> message, arg |-> arg])

Flash(category, message) == FlashArg(category, message, None)

(* The request as received; the stages fill in the outcome fields *)
Request(op, method, token, task_id, form) ==
    [op |-> op, method |-> method, token |-> token, task_id |-> task_id, form |-> form,
     stage |-> "view", status |-> 200, location |-> None, template |-> None,
     flash |-> None, validated |-> None, listing |-> None, task |-> None]

Redirect(r, endpoint, flash) ==
    [r EXCEPT !.status = 302, !.location = Some(endpoint), !.flash = flash]

Render(r, template) == [r EXCEPT !.status = 200, !.template = Some(template)]

(* errorhandler(401) *)
unauthorized(r) == [r EXCEPT !.status = 401, !.template = Some("401.html")]

(* errorhandler(404) *)
not_found(r) == [r EXCEPT !.status = 404, !.template = Some("404.html")]

(* An error response: the registered handler's page, or the bare status *)
Abort(r, code) ==
    IF code = 401 THEN unauthorized(r)
    ELSE IF code = 404 THEN not_found(r)
    ELSE [r EXCEPT !.status = code]

(* The outcome of a request, as kept in resp: the response, and the data of *)
(* the form when it validated                                               *)
Outcome(r) ==
    [stage |-> r.stage, status |-> r.status, location |-> r.location,
     template |-> r.template, flash |-> r.flash, validated |-> r.validated,
     data |-> IF r.validated = Some(TRUE) THEN r.form ELSE None]

NoResponse == Outcome([Request("none", "GET", FALSE, None, None) EXCEPT !.stage = "none"])

(* No anti-forgery check *)
csrf_protect_Off(method, token) == FALSE

(* CSRFProtect.protect, run by the before_request hook that CSRFProtect(app) *)
(* registers first: a POST without a valid token is answered 400.            *)
csrf_protect(method, token) == method = "POST" /\ ~token

(* A hook that answers the idle session with the redirect but keeps it *)
load_logged_in_user_and_check_timeout_KeepsSession(sess) ==
    IF Truthy(sess.user_id) /\ sess.last_activity # None
       /\ now - (IF fromisoformat(Val(sess.last_activity)).ok
                 THEN fromisoformat(Val(sess.last_activity)).dt ELSE now)
            > idle_timeout_minutes
    THEN [redirect |-> TRUE, sess |-> sess]
    ELSE IF Truthy(sess.user_id)
         THEN [redirect |-> FALSE,
               sess |-> [sess EXCEPT !.last_activity = Some(isoformat(now))]]
         ELSE [redirect |-> FALSE, sess |-> sess]

(* A hook that stamps the session only when no time was recorded before *)
load_logged_in_user_and_check_timeout_NoRefresh(sess) ==
    IF Truthy(sess.user_id) /\ sess.last_activity # None
       /\ now - (IF fromisoformat(Val(sess.last_activity)).ok
                 THEN fromisoformat(Val(sess.last_activity)).dt ELSE now)
            > idle_timeout_minutes
    THEN [redirect |-> TRUE, sess |-> EmptySession]
    ELSE IF Truthy(sess.user_id) /\ sess.last_activity = None
         THEN [redirect |-> FALSE,
               sess |-> [sess EXCEPT !.last_activity = Some(isoformat(now))]]
         ELSE [redirect |-> FALSE, sess |-> sess]

(* A hook that answers the idle session with the redirect and only forgets *)
(* the time of its last activity                                           *)
load_logged_in_user_and_check_timeout_DropsTime(sess) ==
    IF Truthy(sess.user_id) /\ sess.last_activity # None
       /\ now - (IF fromisoformat(Val(sess.last_activity)).ok
                 THEN fromisoformat(Val(sess.last_activity)).dt ELSE now)
            > idle_timeout_minutes
    THEN [redirect |-> TRUE, sess |-> [sess EXCEPT !.last_activity = None]]
    ELSE IF Truthy(sess.user_id)
         THEN [redirect |-> FALSE,
               sess |-> [sess EXCEPT !.last_activity = Some(isoformat(now))]]
         ELSE [redirect |-> FALSE, sess |-> sess]

(* load_logged_in_user_and_check_timeout: the session it leaves and whether *)
(* it answers the request itself with the redirect to login                  *)
load_logged_in_user_and_check_timeout(sess) ==
    LET user_id == sess.user_id
        last_activity == sess.last_activity
        parsed == fromisoformat(Val(last_activity))
        last_activity_dt == IF parsed.ok THEN parsed.dt ELSE now
    IN  IF Truthy(user_id) /\ last_activity # None
           /\ now - last_activity_dt > idle_timeout_minutes
        THEN [redirect |-> TRUE, sess |-> EmptySession]
        ELSE IF Truthy(user_id)
             THEN [redirect |-> FALSE,
                   sess |-> [sess EXCEPT !.last_activity = Some(isoformat(now))]]
             ELSE [redirect |-> FALSE, sess |-> sess]

(* g.user *)
g_user(sess) ==
    IF sess.user_id = None THEN {} ELSE UserById(Val(sess.user_id))

(* The before_request hooks, in the order they are registered *)
Preprocess(method, token) ==
    IF csrf_protect(method, token)
    THEN [stage |-> "csrf", sess |-> session]
    ELSE LET b == load_logged_in_user_and_check_timeout(session)
         IN  [stage |-> IF b.redirect THEN "timeout" ELSE "view", sess |-> b.sess]

(* A wrapper that lets every session through *)
login_required_Always(sess) == TRUE

(* login_required.wrapped_view *)
login_required(sess) == Truthy(sess.user_id)

(* A guard that answers the session without user with the 401 error *)
EarlyResponse_Unauthorized(r, stage) ==
    IF stage = "csrf" THEN [Abort(r, 400) EXCEPT !.stage = "csrf"]
    ELSE IF stage = "timeout"
    THEN [Redirect(r, "login", Flash("info", "You have been logged out due to inactivity."))
            EXCEPT !.stage = "timeout"]
    ELSE [Abort(r, 401) EXCEPT !.stage = "guard"]

(* The response of a request that a stage before the view function answers *)
EarlyResponse(r, stage) ==
    IF stage = "csrf" THEN [Abort(r, 400) EXCEPT !.stage = "csrf"]
    ELSE IF stage = "timeout"
    THEN [Redirect(r, "login", Flash("info", "You have been logged out due to inactivity."))
            EXCEPT !.stage = "timeout"]
    ELSE [Redirect(r, "login", Flash("warning", "Please log in to access this page."))
            EXCEPT !.stage = "guard"]

Result(sess, us, ts, r) == [sess |-> sess, users |-> us, tasks |-> ts, resp |-> r]

(* A route without login_required: the hooks, then the view function *)
Route(r, View(_)) ==
    LET pre == Preprocess(r.method, r.token)
    IN  IF pre.stage # "view"
        THEN {Result(pre.sess, users, tasks, EarlyResponse(r, pre.stage))}
        ELSE View(pre.sess)

(* A route with login_required *)
ProtectedRoute(r, View(_)) ==
    LET pre == Preprocess(r.method, r.token)
    IN  IF pre.stage # "view"
        THEN {Result(pre.sess, users, tasks, EarlyResponse(r, pre.stage))}
        ELSE IF ~login_required(pre.sess)
        THEN {Result(pre.sess, users, tasks, EarlyResponse(r, "guard"))}
        ELSE View(pre.sess)

----------------------------------------------------------------------------
(* Dashboard query helpers *)

Lower(ch) == IF ch = "A" THEN "a" ELSE IF ch = "B" THEN "b" ELSE ch

RECURSIVE LStrip(_)
LStrip(s) == IF s # <<>> /\ Head(s) = " " THEN LStrip(Tail(s)) ELSE s

RECURSIVE RStrip(_)
RStrip(s) ==
    IF s # <<>> /\ s[Len(s)] = " " THEN RStrip(SubSeq(s, 1, Len(s) - 1)) ELSE s

Strip(s) == RStrip(LStrip(s))

(* lower(text) LIKE lower(pattern), with the wildcards % and _ *)
RECURSIVE LikeMatch(_, _)
LikeMatch(pattern, text) ==
    IF pattern = <<>> THEN text = <<>>
    ELSE IF Head(pattern) = "%"
    THEN LikeMatch(Tail(pattern), text)
         \/ (text # <<>> /\ LikeMatch(pattern, Tail(text)))
    ELSE /\ text # <<>>
         /\ (Head(pattern) = "_" \/ Lower(Head(pattern)) = Lower(Head(text)))
         /\ LikeMatch(Tail(pattern), Tail(text))

(* Task.title.ilike(f"%{search.strip()}%") *)
ilike(title, search) == LikeMatch(<<"%">> \o Strip(search) \o <<"%">>, title)

(* A status filter that restricts nothing *)
StatusFilter_Unrestricted(t, status_filter) == TRUE

StatusFilter(t, status_filter) ==
    IF status_filter = "completed" THEN t.is_completed
    ELSE IF status_filter = "incomplete" THEN ~t.is_completed
    ELSE TRUE

(* The rows the dashboard query selects, before ordering and paging *)
DashboardQuery(user_id, status_filter, search) ==
    {t \in tasks :
        /\ t.user_id = user_id
        /\ StatusFilter(t, status_filter)
        /\ (search # None /\ Val(search) # <<>> => ilike(t.title, Val(search)))}

(* order_by(Task.created_at.desc()): every order of the rows that is      *)
(* descending in created_at (rows created in the same minute in any order) *)
OrderByCreatedDesc(rows) ==
    {q \in [1..Cardinality(rows) -> rows] :
        /\ \A i, j \in 1..Cardinality(rows) : i # j => q[i] # q[j]
        /\ \A i, j \in 1..Cardinality(rows) : i < j => q[i].created_at >= q[j].created_at}

(* query.paginate(page=page, per_page=per_page, error_out=False).items *)
Paginate(q, page) ==
    LET p == IF page < 1 THEN 1 ELSE page
        first == (p - 1) * per_page + 1
        last == IF p * per_page < Len(q) THEN p * per_page ELSE Len(q)
    IN  IF first > Len(q) THEN <<>> ELSE SubSeq(q, first, last)

Listing(user_id, status_filter, items) ==
    LET total_tasks == Cardinality({t \in tasks : t.user_id = user_id})
        completed_tasks == Cardinality({t \in tasks : t.user_id = user_id /\ t.is_completed})
    IN  [items |-> items, status_filter |-> status_filter,
         total_tasks |-> total_tasks, completed_tasks |-> completed_tasks,
         pending_tasks |-> total_tasks - completed_tasks]


----------------------------------------------------------------------------
(* View functions: the results of the body, given the session the hooks left *)

index_view(r, sess) ==
    IF Truthy(sess.user_id)
    THEN {Result(sess, users, tasks, Redirect(r, "dashboard", None))}
    ELSE {Result(sess, users, tasks, Redirect(r, "login", None))}

(* register from db.session.add on: the INSERT; the unique index refuses *)
(* a stored username, and the exception leaves the view function         *)
register_commit(rv, sess) ==
    LET form == Val(rv.form)
    IN  IF IntegrityError(form.username)
        THEN {Result(sess, users, tasks, Abort(rv, 500))}
        ELSE {Result(sess, users \cup {NewUser(form.username, form.password, salt)}, tasks,
                  Redirect(rv, "login",
                      Flash("success", "Registration successful! Please log in.")))
                : salt \in Salts}

(* register up to the lookup of the username, and Then from there *)
register_query(r, sess, Then(_)) ==
    IF Truthy(sess.user_id)
    THEN {Result(sess, users, tasks, Redirect(r, "dashboard", None))}
    ELSE IF r.method = "POST" /\ validate_on_submit(r.method, RegistrationFormValid(Val(r.form)))
    THEN LET form == Val(r.form)
             existing_user == UserByName(form.username)
             rv == [r EXCEPT !.validated = Some(TRUE)]
         IN  IF existing_user # {}
             THEN {Result(sess, users, tasks,
                       Redirect(rv, "register",
                           Flash("danger", "Username already taken. Please choose another one.")))}
             ELSE Then(rv)
    ELSE {Result(sess, users, tasks,
              Render([r EXCEPT !.validated = IF r.method = "POST" THEN Some(FALSE) ELSE None],
                     "register.html"))}

register_view(r, sess) ==
    register_query(r, sess, LAMBDA rv : register_commit(rv, sess))

(* A login that stores the user and the time but leaves the lifetime of the *)
(* session as it was                                                        *)
login_view_KeepsLifetime(r, sess) ==
    IF Truthy(sess.user_id)
    THEN {Result(sess, users, tasks, Redirect(r, "dashboard", None))}
    ELSE IF r.method = "POST" /\ validate_on_submit(r.method, LoginFormValid(Val(r.form)))
    THEN LET form == Val(r.form)
             found == {u \in UserByName(form.username) : check_password(u, form.password)}
             rv == [r EXCEPT !.validated = Some(TRUE)]
         IN  IF found # {}
             THEN {Result([sess EXCEPT !.user_id = Some(user.id),
                                       !.last_activity = Some(isoformat(now))],
                          users, tasks,
                          Redirect(rv, "dashboard",
                              FlashArg("success", "Welcome, {username}!", Some(user.username))))
                     : user \in found}
             ELSE {Result(sess, users, tasks,
                       [Render(rv, "login.html") EXCEPT
                           !.flash = Flash("danger", "Invalid username or password.")])}
    ELSE {Result(sess, users, tasks,
              Render([r EXCEPT !.validated = IF r.method = "POST" THEN Some(FALSE) ELSE None],
                     "login.html"))}

login_view(r, sess) ==
    IF Truthy(sess.user_id)
    THEN {Result(sess, users, tasks, Redirect(r, "dashboard", None))}
    ELSE IF r.method = "POST" /\ validate_on_submit(r.method, LoginFormValid(Val(r.form)))
    THEN LET form == Val(r.form)
             found == {u \in UserByName(form.username) : check_password(u, form.password)}
             rv == [r EXCEPT !.validated = Some(TRUE)]
         IN  IF found # {}
             THEN {Result([user_id |-> Some(user.id),
                           last_activity |-> Some(isoformat(now)),
                           permanent |-> form.remember_me],
                          users, tasks,
                          Redirect(rv, "dashboard",
                              FlashArg("success", "Welcome, {username}!", Some(user.username))))
                     : user \in found}
             ELSE {Result(sess, users, tasks,
                       [Render(rv, "login.html") EXCEPT
                           !.flash = Flash("danger", "Invalid username or password.")])}
    ELSE {Result(sess, users, tasks,
              Render([r EXCEPT !.validated = IF r.method = "POST" THEN Some(FALSE) ELSE None],
                     "login.html"))}

(* A logout that only forgets the time of the last activity *)
logout_view_KeepsUser(r, sess) ==
    {Result([sess EXCEPT !.last_activity = None], users, tasks,
         Redirect(r, "login", Flash("info", "You have been logged out.")))}

logout_view(r, sess) ==
    {Result(EmptySession, users, tasks,
         Redirect(r, "login", Flash("info", "You have been logged out.")))}

(* g.user.id of a view function; g.user None raises (500) *)
WithUserId(r, sess, View(_)) ==
    IF g_user(sess) = {} THEN {Result(sess, users, tasks, Abort(r, 500))}
    ELSE View((CHOOSE u \in g_user(sess) : TRUE).id)

dashboard_view(r, sess, status_filter, search, page) ==
    WithUserId(r, sess, LAMBDA user_id :
        {Result(sess, users, tasks,
             [Render(r, "dashboard.html") EXCEPT
                 !.listing = Some(Listing(user_id, status_filter,
                     [i \in 1..Len(Paginate(q, page)) |-> Paginate(q, page)[i].id]))])
           : q \in OrderByCreatedDesc(DashboardQuery(user_id, status_filter, search))})

create_task_view(r, sess) ==
    IF r.method = "POST" /\ validate_on_submit(r.method, TaskFormValid(Val(r.form), None))
    THEN LET form == Val(r.form)
             rv == [r EXCEPT !.validated = Some(TRUE)]
         IN  WithUserId(rv, sess, LAMBDA user_id :
                 {Result(sess, users,
                      tasks \cup {NewTask(form.title, form.description, form.priority,
                                          DateFieldProcess(form.due_date, None).data,
                                          user_id)},
                      Redirect(rv, "dashboard",
                          Flash("success", "Task created successfully.")))})
    ELSE {Result(sess, users, tasks,
              Render([r EXCEPT !.validated = IF r.method = "POST" THEN Some(FALSE) ELSE None],
                     "edit_task.html"))}

(* Task.query.filter_by(id=task_id, user_id=g.user.id).first_or_404() *)
WithOwnedTask(r, sess, View(_)) ==
    WithUserId(r, sess, LAMBDA user_id :
        IF OwnedTask(Val(r.task_id), user_id) = {}
        THEN {Result(sess, users, tasks, Abort(r, 404))}
        ELSE View(CHOOSE t \in OwnedTask(Val(r.task_id), user_id) : TRUE))

(* An edit that stamps the completion time whenever the flag is checked *)
EditedTask_Restamps(task, form) ==
    [task EXCEPT
        !.title = form.title,
        !.description = form.description,
        !.priority = form.priority,
        !.due_date = DateFieldProcess(form.due_date, task.due_date).data,
        !.is_completed = form.is_completed,
        !.completed_at = IF form.is_completed THEN Some(now) ELSE None]

(* An edit that leaves the completion time when the flag is unchecked *)
EditedTask_KeepsStamp(task, form) ==
    [task EXCEPT
        !.title = form.title,
        !.description = form.description,
        !.priority = form.priority,
        !.due_date = DateFieldProcess(form.due_date, task.due_date).data,
        !.is_completed = form.is_completed,
        !.completed_at = IF form.is_completed /\ ~task.is_completed THEN Some(now)
                         ELSE task.completed_at]

(* The assignments of edit_task to the loaded task *)
EditedTask(task, form) ==
    LET previously_completed == task.is_completed
        is_completed == form.is_completed
    IN  [task EXCEPT
            !.title = form.title,
            !.description = form.description,
            !.priority = form.priority,
            !.due_date = DateFieldProcess(form.due_date, task.due_date).data,
            !.is_completed = is_completed,
            !.completed_at = IF is_completed /\ ~previously_completed THEN Some(now)
                             ELSE IF ~is_completed THEN None
                             ELSE task.completed_at]

(* edit_task after the query: validation, the assignments, the commit *)
edit_task_commit(r, sess, task) ==
    IF r.method = "POST"
       /\ validate_on_submit(r.method, TaskFormValid(Val(r.form), task.due_date))
    THEN {Result(sess, users, Flush(task, EditedTask(task, Val(r.form))),
              Redirect([r EXCEPT !.validated = Some(TRUE)], "dashboard",
                  Flash("success", "Task updated successfully.")))}
    ELSE {Result(sess, users, tasks,
              Render([r EXCEPT !.validated = IF r.method = "POST" THEN Some(FALSE) ELSE None],
                     "edit_task.html"))}

edit_task_view(r, sess) ==
    WithOwnedTask(r, sess, LAMBDA task : edit_task_commit(r, sess, task))

(* toggle_complete that leaves the completion time of a reopened task *)
ToggledTask_KeepsTime(task) ==
    LET is_completed == ~task.is_completed
    IN  [task EXCEPT !.is_completed = is_completed,
                     !.completed_at = IF is_completed THEN Some(now) ELSE task.completed_at]

(* toggle_complete that does not stamp the completion time *)
ToggledTask_NoStamp(task) ==
    LET is_completed == ~task.is_completed
    IN  [task EXCEPT !.is_completed = is_completed, !.completed_at = None]

(* The assignments of toggle_complete to the loaded task *)
ToggledTask(task) ==
    LET is_completed == ~task.is_completed
    IN  [task EXCEPT !.is_completed = is_completed,
                     !.completed_at = IF is_completed THEN Some(now) ELSE None]

(* toggle_complete after the query: the assignments, the commit *)
toggle_complete_commit(r, sess, task) ==
    {Result(sess, users, Flush(task, ToggledTask(task)),
         Redirect(r, "dashboard", Flash("info", "Task status updated.")))}

toggle_complete_view(r, sess) ==
    WithOwnedTask(r, sess, LAMBDA task : toggle_complete_commit(r, sess, task))

delete_task_view(r, sess) ==
    WithOwnedTask(r, sess, LAMBDA task :
        {Result(sess, users, tasks \ {task},
             Redirect(r, "dashboard", Flash("info", "Task deleted.")))})

----------------------------------------------------------------------------
(* Routes: the results of a whole request in the current state *)

(* GET / *)
index == Route(Request("index", "GET", FALSE, None, None), LAMBDA sess :
             index_view(Request("index", "GET", FALSE, None, None), sess))

(* A path no route matches: the before_request hooks run, then 404 *)
unmatched == Route(Request("unmatched", "GET", FALSE, None, None), LAMBDA sess :
                 {Result(sess, users, tasks,
                         Abort(Request("unmatched", "GET", FALSE, None, None), 404))})

(* GET, POST /register *)
register(method, token, form) ==
    Route(Request("register", method, token, None, form), LAMBDA sess :
        register_view(Request("register", method, token, None, form), sess))

(* GET, POST /login *)
login(method, token, form) ==
    Route(Request("login", method, token, None, form), LAMBDA sess :
        login_view(Request("login", method, token, None, form), sess))

(* GET /logout *)
logout ==
    ProtectedRoute(Request("logout", "GET", FALSE, None, None), LAMBDA sess :
        logout_view(Request("logout", "GET", FALSE, None, None), sess))

(* GET, POST /dashboard *)
dashboard(method, token, status_filter, search, page) ==
    ProtectedRoute(Request("dashboard", method, token, None, None), LAMBDA sess :
        dashboard_view(Request("dashboard", method, token, None, None), sess,
                       status_filter, search, page))

(* GET, POST /tasks/create *)
create_task(method, token, form) ==
    ProtectedRoute(Request("create_task", method, token, None, form), LAMBDA sess :
        create_task_view(Request("create_task", method, token, None, form), sess))

(* GET, POST /tasks/<task_id>/edit *)
edit_task(method, token, task_id, form) ==
    ProtectedRoute(Request("edit_task", method, token, Some(task_id), form), LAMBDA sess :
        edit_task_view(Request("edit_task", method, token, Some(task_id), form), sess))

(* POST /tasks/<task_id>/toggle_complete *)
toggle_complete(token, task_id) ==
    ProtectedRoute(Request("toggle_complete", "POST", token, Some(task_id), None), LAMBDA sess :
        toggle_complete_view(Request("toggle_complete", "POST", token, Some(task_id), None), sess))

(* POST /tasks/<task_id>/delete *)
delete_task(token, task_id) ==
    ProtectedRoute(Request("delete_task", "POST", token, Some(task_id), None), LAMBDA sess :
        delete_task_view(Request("delete_task", "POST", token, Some(task_id), None), sess))

----------------------------------------------------------------------------
(* Specification *)

(* The requests served concurrently: none has begun *)
Tabs == {1, 2}

Idle == [pc |-> "idle", r |-> Request("none", "GET", FALSE, None, None), after |-> 0, order |-> 0]

NoneInFlight == [p \in Tabs |-> Idle]

(* Initial state: empty tables, a browser without session data *)
Init ==
    /\ now = 0
    /\ users = {}
    /\ tasks = {}
    /\ session = EmptySession
    /\ resp = NoResponse
    /\ inflight = NoneInFlight

(* The request is served: its result becomes the state *)
Serve(results) ==
    \E res \in results :
        /\ session' = res.sess
        /\ users' = res.users
        /\ tasks' = res.tasks
        /\ resp' = Outcome(res.resp)
        /\ UNCHANGED <<now, inflight>>

(* Time passes between requests *)
Tick(d) ==
    /\ now + d <= MaxTime
    /\ now' = now + d
    /\ resp' = NoResponse
    /\ UNCHANGED <<users, tasks, session, inflight>>

Index == Serve(index)

Unmatched == Serve(unmatched)

Register ==
    \E method \in Methods : \E token \in TokenOf(method) :
        \E form \in FormOf(method, RegistrationInputs) : Serve(register(method, token, form))

Login ==
    \E method \in Methods : \E token \in TokenOf(method) :
        \E form \in FormOf(method, LoginInputs) : Serve(login(method, token, form))

Logout == Serve(logout)

Dashboard ==
    \E method \in Methods : \E token \in TokenOf(method) :
        \E status_filter \in StatusParams, search \in SearchParams, page \in PageParams :
            Serve(dashboard(method, token, status_filter, search, page))

(* The results that keep the task table within the bound *)
Within(results, max) == {res \in results : Cardinality(res.tasks) <= max}

CreateTask ==
    \E method \in Methods : \E token \in TokenOf(method) :
        \E form \in FormOf(method, TaskInputs) :
            Serve(Within(create_task(method, token, form), MaxTasks))

EditTask ==
    \E method \in Methods, task_id \in TaskIds : \E token \in TokenOf(method) :
        \E form \in FormOf(method, TaskInputs) : Serve(edit_task(method, token, task_id, form))

ToggleComplete ==
    \E token \in BOOLEAN, task_id \in TaskIds : Serve(toggle_complete(token, task_id))

DeleteTask ==
    \E token \in BOOLEAN, task_id \in TaskIds : Serve(delete_task(token, task_id))

Next ==
    \/ \E d \in TickSteps : Tick(d)
    \/ Index
    \/ Unmatched
    \/ Register
    \/ Login
    \/ Logout
    \/ Dashboard
    \/ CreateTask
    \/ EditTask
    \/ ToggleComplete
    \/ DeleteTask

Spec == Init /\ [][Next]_vars

(* The session reaches the hook with a last_activity text that fromisoformat *)
(* rejects: the case the except branch of the hook handles                   *)
MalformedTimestamp ==
    /\ Truthy(session.user_id)
    /\ session' = [session EXCEPT !.last_activity = Some([text |-> "junk", t |-> 0])]
    /\ resp' = NoResponse
    /\ UNCHANGED <<now, users, tasks, inflight>>

NextMalformed ==
    \/ \E d \in TickSteps : Tick(d)
    \/ Index
    \/ Unmatched
    \/ Register
    \/ Login
    \/ Logout
    \/ Dashboard
    \/ CreateTask
    \/ EditTask
    \/ ToggleComplete
    \/ DeleteTask
    \/ MalformedTimestamp

SpecMalformed == Init /\ [][NextMalformed]_vars

----------------------------------------------------------------------------
(* Requests, for the properties *)

(* What a request to a form route can carry: method, token, form *)
Submissions(inputs) ==
    {<<"GET", FALSE, None>>} \cup {<<"POST", k, Some(f)>> : k \in BOOLEAN, f \in inputs}

MethodTokens == {<<"GET", FALSE>>, <<"POST", FALSE>>, <<"POST", TRUE>>}

RegisterResults == UNION {register(x[1], x[2], x[3]) : x \in Submissions(RegistrationInputs)}

LoginResults == UNION {login(x[1], x[2], x[3]) : x \in Submissions(LoginInputs)}

DashboardResults ==
    UNION {dashboard(x[1], x[2], st, se, pg)
             : x \in MethodTokens, st \in StatusParams, se \in SearchParams, pg \in PageParams}

CreateTaskResults == UNION {create_task(x[1], x[2], x[3]) : x \in Submissions(TaskInputs)}

EditTaskResults ==
    UNION {edit_task(x[1], x[2], id, x[3]) : x \in Submissions(TaskInputs), id \in TaskIds}

ToggleCompleteResults == UNION {toggle_complete(k, id) : k \in BOOLEAN, id \in TaskIds}

DeleteTaskResults == UNION {delete_task(k, id) : k \in BOOLEAN, id \in TaskIds}

(* The results of every request to a route with login_required *)
ProtectedResults ==
    logout \cup DashboardResults \cup CreateTaskResults \cup EditTaskResults
    \cup ToggleCompleteResults \cup DeleteTaskResults

(* The results of every request *)
AllResults == index \cup unmatched \cup RegisterResults \cup LoginResults \cup ProtectedResults

(* The session is logged in and was last active more than the timeout ago *)
SessionExpired ==
    /\ Truthy(session.user_id)
    /\ session.last_activity # None
    /\ Val(session.last_activity).text = "iso"
    /\ now - Val(session.last_activity).t > idle_timeout_minutes

(* The request is a POST without a valid anti-forgery token *)
TokenMissing(r) == r.method = "POST" /\ ~r.token

----------------------------------------------------------------------------
(* C1: every stored task is completed if and only if it has a completion   *)
(* time, in every state that create, edit, toggle and delete requests of   *)
(* any users lead to.                                                      *)
C1_CompletedIffCompletedAt ==
    \A t \in tasks : t.is_completed <=> (t.completed_at # None)

(* A task was completed by a toggle and then edited with the flag still set *)
C1_Witness ==
    /\ resp.flash = Flash("success", "Task updated successfully.")
    /\ \E t \in tasks : t.is_completed /\ t.completed_at # None /\ Val(t.completed_at) < now


----------------------------------------------------------------------------
(* The results of the edit (read or submit), toggle and delete requests for *)
(* the task of the given id                                                 *)
TaskRequestResults(id) ==
    UNION {edit_task(x[1], x[2], id, x[3]) : x \in Submissions(TaskInputs)}
    \cup UNION {toggle_complete(k, id) : k \in BOOLEAN}
    \cup UNION {delete_task(k, id) : k \in BOOLEAN}

(* The session carries the identifier of a stored user other than the owner *)
(* of task t                                                                *)
AuthenticatedAsOther(t) ==
    /\ Truthy(session.user_id)
    /\ UserById(Val(session.user_id)) # {}
    /\ Val(session.user_id) # t.user_id

(* C2 as stated: every edit, toggle or delete request for a task of user A *)
(* made in a session that carries the identifier of another user B is      *)
(* answered not found, and the task is stored unchanged afterwards.        *)
C2_AsStated ==
    \A t \in tasks : AuthenticatedAsOther(t) =>
        \A res \in TaskRequestResults(t.id) :
            res.resp.status = 404 /\ t \in res.tasks

(* C2, amended: such a request is answered not found when it passes the    *)
(* anti-forgery check and the inactivity check; whatever the answer, the   *)
(* stored tasks, the task of A among them, are the same afterwards.        *)
C2_ForeignTaskNotFound ==
    \A t \in tasks : AuthenticatedAsOther(t) =>
        \A res \in TaskRequestResults(t.id) :
            /\ res.tasks = tasks
            /\ t \in res.tasks
            /\ res.users = users
            /\ (~TokenMissing(res.resp) /\ ~SessionExpired
                    => res.resp.stage = "view" /\ res.resp.status = 404)

(* User B has just been answered not found, and the delete request of B for *)
(* the stored task of A has that answer                                     *)
C2_Witness ==
    /\ resp.stage = "view" /\ resp.status = 404
    /\ \E t \in tasks :
          /\ AuthenticatedAsOther(t)
          /\ \E res \in delete_task(TRUE, t.id) : Outcome(res.resp) = resp /\ res.tasks = tasks


----------------------------------------------------------------------------
(* The response is the redirect to the login page *)
RedirectsToLogin(r) == r.status = 302 /\ r.location = Some("login")

(* C3 as stated: while the session carries no user identifier, every       *)
(* request to a protected route (logout, dashboard, create, edit, toggle,  *)
(* delete) is answered by the redirect to login, its view function does    *)
(* not run, and users and tasks are left as they are.                      *)
C3_AsStated ==
    session.user_id = None =>
        \A res \in ProtectedResults :
            /\ RedirectsToLogin(res.resp)
            /\ res.resp.stage # "view"
            /\ res.users = users /\ res.tasks = tasks

(* C3, amended: while the session carries no user identifier, no request   *)
(* to a protected route runs its view function or changes users or tasks;  *)
(* the answer is the redirect to login with the log-in warning, except for *)
(* a POST without a valid anti-forgery token, which is answered 400.       *)
C3_GuardRedirects ==
    session.user_id = None =>
        \A res \in ProtectedResults :
            /\ res.resp.stage # "view"
            /\ res.users = users /\ res.tasks = tasks
            /\ res.sess = session
            /\ IF TokenMissing(res.resp)
               THEN res.resp.stage = "csrf" /\ res.resp.status = 400
               ELSE /\ res.resp.stage = "guard"
                    /\ RedirectsToLogin(res.resp)
                    /\ res.resp.flash = Flash("warning", "Please log in to access this page.")

(* The wrapper has just answered a request of a session without a user     *)
(* identifier, while users and a task are stored                           *)
C3_Witness ==
    /\ resp.stage = "guard"
    /\ session.user_id = None
    /\ users # {} /\ tasks # {}


----------------------------------------------------------------------------
(* C4 as stated: when the session carries a user identifier and a last     *)
(* activity more than 20 minutes before now, the next request to any       *)
(* route clears the whole session and is answered by the redirect to       *)
(* login, without running the view function or changing users or tasks.    *)
C4_AsStated ==
    SessionExpired =>
        \A res \in AllResults :
            /\ res.sess = EmptySession
            /\ RedirectsToLogin(res.resp)
            /\ res.resp.stage # "view"
            /\ res.users = users /\ res.tasks = tasks

(* C4, amended: such a request never runs its view function or changes    *)
(* users or tasks; it clears the whole session and is answered by the      *)
(* redirect to login with the inactivity message, except for a POST        *)
(* without a valid anti-forgery token, which is answered 400 and leaves    *)
(* the session as it is.                                                   *)
C4_IdleSessionCleared ==
    SessionExpired =>
        \A res \in AllResults :
            /\ res.resp.stage # "view"
            /\ res.users = users /\ res.tasks = tasks
            /\ IF TokenMissing(res.resp)
               THEN res.resp.stage = "csrf" /\ res.resp.status = 400 /\ res.sess = session
               ELSE /\ res.sess = EmptySession
                    /\ res.resp.stage = "timeout"
                    /\ RedirectsToLogin(res.resp)
                    /\ res.resp.flash =
                          Flash("info", "You have been logged out due to inactivity.")

(* The hook has just logged an idle session out, while a task is stored *)
C4_Witness ==
    /\ resp.stage = "timeout"
    /\ session = EmptySession
    /\ tasks # {}
    /\ now > idle_timeout_minutes

(* The session is logged in and its last activity is at most the timeout   *)
(* ago, or is a text that is not a timestamp                               *)
SessionFresh ==
    /\ Truthy(session.user_id)
    /\ session.last_activity # None
    /\ Val(session.last_activity).text = "iso"
          => now - Val(session.last_activity).t <= idle_timeout_minutes

(* The session the view function of a fresh session must be given *)
Refreshed == [session EXCEPT !.last_activity = Some(isoformat(now))]

(* C5 as stated: when the session carries a user identifier and a last     *)
(* activity at most 20 minutes before now (or one that cannot be parsed),  *)
(* every request reaches its view function, with the session still         *)
(* carrying the user and its last activity set to now beforehand.          *)
C5_AsStated ==
    SessionFresh =>
        \A res \in AllResults :
            /\ res.resp.stage = "view"
            /\ res.resp.op # "logout" => res.sess = Refreshed

(* C5, amended: every such request that is not a POST without a valid      *)
(* anti-forgery token reaches its view function, with the session still    *)
(* carrying the user and its last activity set to now beforehand (logout   *)
(* then clears it); a POST without a valid token is answered 400 and       *)
(* leaves the recorded last activity as it was.                            *)
C5_FreshSessionProceeds ==
    SessionFresh =>
        /\ \A mk \in MethodTokens :
              IF csrf_protect(mk[1], mk[2])
              THEN Preprocess(mk[1], mk[2]) = [stage |-> "csrf", sess |-> session]
              ELSE Preprocess(mk[1], mk[2]) = [stage |-> "view", sess |-> Refreshed]
        /\ \A res \in AllResults :
              IF TokenMissing(res.resp)
              THEN res.resp.stage = "csrf" /\ res.sess = session
              ELSE /\ res.resp.stage = "view"
                   /\ res.sess = IF res.resp.op = "logout" THEN EmptySession ELSE Refreshed

(* A session last active exactly 20 minutes ago has just been served the   *)
(* dashboard and is stamped with the current time                          *)
C5_Witness ==
    /\ resp.stage = "view" /\ resp.template = Some("dashboard.html")
    /\ now = idle_timeout_minutes
    /\ Truthy(session.user_id)
    /\ session.last_activity = Some(isoformat(now))
    /\ \E t \in tasks : t.created_at = 0 /\ t.user_id = Val(session.user_id)

(* A session whose last activity is not a timestamp is served and stamped  *)
C5_WitnessMalformed ==
    /\ SessionFresh
    /\ Val(session.last_activity).text # "iso"
    /\ \A res \in index : res.resp.stage = "view" /\ res.sess = Refreshed


----------------------------------------------------------------------------
(* C6: every task that a valid create-task submission stores is incomplete, *)
(* has no completion time and is owned by the user of the session, whether  *)
(* the submitted form has is_completed checked or not.                      *)
C6_CreatedTaskIncomplete ==
    \A k \in BOOLEAN, f \in TaskInputs :
        \A res \in create_task("POST", k, Some(f)) :
            res.resp.validated = Some(TRUE) /\ res.resp.status = 302 =>
                /\ Truthy(session.user_id)
                /\ \E t \in res.tasks \ tasks :
                      /\ res.tasks = tasks \cup {t}
                      /\ ~t.is_completed
                      /\ t.completed_at = None
                      /\ t.user_id = Val(session.user_id)
                      /\ t.created_at = now

(* A submission with is_completed checked has just stored a task, which is *)
(* incomplete and owned by the user of the session                         *)
C6_Witness ==
    /\ resp.flash = Flash("success", "Task created successfully.")
    /\ resp.data # None /\ Val(resp.data).is_completed
    /\ \E t \in tasks :
          /\ t.created_at = now /\ ~t.is_completed /\ t.completed_at = None
          /\ session.user_id = Some(t.user_id)

----------------------------------------------------------------------------
(* C7: a registration submission that validates and names a stored user is *)
(* answered by the redirect to the registration form with the              *)
(* username-taken message and leaves the stored users as they are; no two  *)
(* stored users have the same username.                                    *)
C7_UsernameTaken ==
    /\ \A k \in BOOLEAN, f \in RegistrationInputs :
          \A res \in register("POST", k, Some(f)) :
              res.resp.validated = Some(TRUE) /\ (\E u \in users : u.username = f.username) =>
                  /\ res.resp.status = 302 /\ res.resp.location = Some("register")
                  /\ res.resp.flash =
                        Flash("danger", "Username already taken. Please choose another one.")
                  /\ res.users = users
    /\ \A u1, u2 \in users : u1.username = u2.username => u1 = u2

(* A registration has just been refused for a username that is stored *)
C7_Witness ==
    /\ resp.flash = Flash("danger", "Username already taken. Please choose another one.")
    /\ resp.data # None
    /\ \E u \in users : u.username = Val(resp.data).username
    /\ Cardinality(users) = 2


----------------------------------------------------------------------------
(* The results of the POST requests without a valid anti-forgery token to  *)
(* register, login, create task, edit task, toggle and delete              *)
TokenlessPostResults ==
    UNION {register("POST", FALSE, Some(f)) : f \in RegistrationInputs}
    \cup UNION {login("POST", FALSE, Some(f)) : f \in LoginInputs}
    \cup UNION {create_task("POST", FALSE, Some(f)) : f \in TaskInputs}
    \cup UNION {edit_task("POST", FALSE, id, Some(f)) : id \in TaskIds, f \in TaskInputs}
    \cup UNION {toggle_complete(FALSE, id) : id \in TaskIds}
    \cup UNION {delete_task(FALSE, id) : id \in TaskIds}

(* C8: a POST to register, login, create task, edit task, toggle or delete *)
(* that carries no valid anti-forgery token is rejected (400) before the   *)
(* inactivity hook, the login guard or the view function run: users,       *)
(* tasks and the session, its user identifier included, are unchanged.     *)
C8_TokenlessPostRejected ==
    \A res \in TokenlessPostResults :
        /\ res.resp.stage = "csrf" /\ res.resp.status = 400
        /\ res.users = users /\ res.tasks = tasks
        /\ res.sess = session

(* A POST has just been rejected for its token, in a logged-in session     *)
(* that owns a stored task                                                 *)
C8_Witness ==
    /\ resp.stage = "csrf" /\ resp.status = 400
    /\ Truthy(session.user_id)
    /\ \E t \in tasks : t.user_id = Val(session.user_id)
    /\ \A res \in delete_task(FALSE, 1) : Outcome(res.resp) = resp

----------------------------------------------------------------------------
(* The results of the registration, create-task and edit-task submissions  *)
(* whose form the validators of src/forms.py reject                        *)
InvalidSubmissionResults ==
    UNION {register("POST", TRUE, Some(f))
             : f \in {g \in RegistrationInputs : ~RegistrationFormValid(g)}}
    \cup UNION {create_task("POST", TRUE, Some(f))
             : f \in {g \in TaskInputs : ~TaskFormValid(g, None)}}
    \cup UNION {UNION {edit_task("POST", TRUE, t.id, Some(f))
                      : f \in {g \in TaskInputs : ~TaskFormValid(g, t.due_date)}}
             : t \in tasks}

FormTemplate(op) == IF op = "register" THEN "register.html" ELSE "edit_task.html"

(* C9: when the form of a registration, create-task or edit-task           *)
(* submission fails validation, users and tasks are the same after the     *)
(* request as before it and the same form is rendered again (no redirect). *)
C9_InvalidFormNoChange ==
    \A res \in InvalidSubmissionResults :
        /\ res.users = users /\ res.tasks = tasks
        /\ res.resp.validated # None =>
              /\ res.resp.validated = Some(FALSE)
              /\ res.resp.status = 200
              /\ res.resp.location = None
              /\ res.resp.template = Some(FormTemplate(res.resp.op))

(* An edit submission of the owner has just failed validation and the form *)
(* is rendered again                                                       *)
C9_Witness ==
    /\ resp.validated = Some(FALSE)
    /\ resp.status = 200 /\ resp.template = Some("edit_task.html")
    /\ Truthy(session.user_id)
    /\ \E t \in tasks :
          /\ t.user_id = Val(session.user_id)
          /\ \E res \in edit_task("POST", TRUE, t.id, Some([BaseTaskInput EXCEPT !.title = <<>>])) :
                Outcome(res.resp) = resp


----------------------------------------------------------------------------
LoggedOut == Flash("info", "You have been logged out.")

(* The login submission names a stored user and gives that user's password *)
CorrectCredentials(f) ==
    \E u \in users : u.username = f.username /\ check_password(u, f.password)

(* C10 as stated: after a logout request of an authenticated session the   *)
(* session carries no user identifier and no last activity, and every      *)
(* later request to a protected route is answered by the redirect to       *)
(* login, until a login submission succeeds.                               *)
C10_AsStated ==
    resp.flash = LoggedOut =>
        /\ session.user_id = None /\ session.last_activity = None
        /\ \A res \in ProtectedResults : RedirectsToLogin(res.resp)

(* C10, amended: a logout request of an authenticated session leaves the   *)
(* session without user identifier and last activity; while the session    *)
(* carries no user identifier, every request to a protected route is       *)
(* answered by the redirect to login, except a POST without a valid        *)
(* anti-forgery token, which is answered 400; and only a login submission  *)
(* with the username and password of a stored user gives the session a     *)
(* user identifier again.                                                  *)
C10_LoggedOutUntilLogin ==
    /\ \A res \in logout :
          res.resp.stage = "view" =>
              /\ res.sess.user_id = None /\ res.sess.last_activity = None
              /\ res.resp.flash = LoggedOut /\ RedirectsToLogin(res.resp)
    /\ resp.flash = LoggedOut => session.user_id = None /\ session.last_activity = None
    /\ session.user_id = None =>
          /\ \A res \in ProtectedResults :
                IF TokenMissing(res.resp)
                THEN res.resp.status = 400 /\ res.sess = session
                ELSE RedirectsToLogin(res.resp) /\ res.resp.stage = "guard"
                     /\ res.sess = session
          /\ \A res \in AllResults :
                res.sess.user_id # None =>
                    /\ res.resp.op = "login" /\ res.resp.method = "POST"
                    /\ res.resp.validated = Some(TRUE)
                    /\ CorrectCredentials(Val(res.resp.form))

(* The session has just been logged out, while its user and a task of that *)
(* user are stored, and a login with the stored credentials logs in again  *)
C10_Witness ==
    /\ resp.flash = LoggedOut
    /\ session = EmptySession
    /\ tasks # {}
    /\ \E f \in LoginInputs : \E res \in login("POST", TRUE, Some(f)) :
          res.sess.user_id # None

----------------------------------------------------------------------------
(* The session that holds the user's identifier, the current time as last *)
(* activity and the given permanent flag, and nothing else                *)
LoggedInSession(user, remember_me) ==
    [user_id |-> Some(user.id), last_activity |-> Some(isoformat(now)),
     permanent |-> remember_me]

RedirectsToDashboard(r) == r.status = 302 /\ r.location = Some("dashboard")

(* C11 as stated: a login submission from an unauthenticated session with  *)
(* a stored username and its password leaves the session holding exactly   *)
(* that user's identifier, the current time and the submitted remember-me  *)
(* value; a login request of an authenticated session changes nothing in   *)
(* the session and redirects to the dashboard (submissions taken with a    *)
(* valid anti-forgery token).                                              *)
C11_AsStated ==
    /\ ~Truthy(session.user_id) =>
          \A f \in LoginInputs :
              CorrectCredentials(f) =>
                  \A res \in login("POST", TRUE, Some(f)) :
                      \E u \in users : /\ u.username = f.username
                                       /\ res.sess = LoggedInSession(u, f.remember_me)
    /\ Truthy(session.user_id) =>
          \A res \in LoginResults :
              ~TokenMissing(res.resp) =>
                  res.sess = session /\ RedirectsToDashboard(res.resp)

(* C11, amended: a login submission with a valid anti-forgery token from   *)
(* an unauthenticated session with a stored username and its password      *)
(* leaves the session holding exactly that user's identifier, the current  *)
(* time as last activity and the submitted remember-me value as permanent  *)
(* flag, and redirects to the dashboard.  A login request of an            *)
(* authenticated session is answered 400 with the session as it is when    *)
(* it is a POST without a valid token; otherwise clears the session and    *)
(* redirects to login when the session is idle for more than 20 minutes;   *)
(* otherwise redirects to the dashboard, the session keeping its user      *)
(* identifier and permanent flag while its last activity is set to the     *)
(* current time.                                                           *)
C11_LoginSetsSession ==
    /\ ~Truthy(session.user_id) =>
          \A f \in LoginInputs :
              CorrectCredentials(f) =>
                  \A res \in login("POST", TRUE, Some(f)) :
                      /\ \E u \in users : /\ u.username = f.username
                                          /\ res.sess = LoggedInSession(u, f.remember_me)
                      /\ RedirectsToDashboard(res.resp)
    /\ Truthy(session.user_id) =>
          \A res \in LoginResults :
              IF TokenMissing(res.resp)
              THEN res.resp.status = 400 /\ res.sess = session
              ELSE IF SessionExpired
              THEN res.sess = EmptySession /\ RedirectsToLogin(res.resp)
              ELSE /\ res.sess = [session EXCEPT !.last_activity = Some(isoformat(now))]
                   /\ RedirectsToDashboard(res.resp)
                   /\ res.users = users /\ res.tasks = tasks

(* The second of two stored users has just logged in with remember-me, and *)
(* the session holds that user's identifier and the current time           *)
C11_Witness ==
    /\ Cardinality(users) = 2
    /\ resp.validated = Some(TRUE) /\ RedirectsToDashboard(resp)
    /\ resp.data # None /\ "remember_me" \in DOMAIN Val(resp.data)
    /\ Val(resp.data).remember_me
    /\ session = [user_id |-> Some(2), last_activity |-> Some(isoformat(now)),
                  permanent |-> TRUE]
    /\ now > 0

----------------------------------------------------------------------------
InvalidCredentials == Flash("danger", "Invalid username or password.")

(* What the client sees of a response *)
Observable(r) ==
    [status |-> r.status, location |-> r.location, template |-> r.template,
     flash |-> r.flash]

(* Login forms that pass validation and name no stored user *)
UnknownUsernameInputs ==
    {f \in LoginInputs : LoginFormValid(f) /\ UserByName(f.username) = {}}

(* Login forms that pass validation and name a stored user with another *)
(* password than that user's                                            *)
WrongPasswordInputs ==
    {f \in LoginInputs :
        /\ LoginFormValid(f)
        /\ UserByName(f.username) # {}
        /\ \A u \in UserByName(f.username) :
              ~check_password_hash(u.password_hash, f.password)}

(* C12: from a session without user identifier, a validated login          *)
(* submission with an unknown username and one with a known username and a *)
(* wrong password have the same observable outcome, the login form         *)
(* rendered again with the generic invalid-credentials message, and both   *)
(* leave the session without user identifier.                              *)
C12_SameOutcome ==
    ~Truthy(session.user_id) =>
        \A f1 \in UnknownUsernameInputs, f2 \in WrongPasswordInputs :
            \A res1 \in login("POST", TRUE, Some(f1)), res2 \in login("POST", TRUE, Some(f2)) :
                /\ Observable(res1.resp) = Observable(res2.resp)
                /\ res1.resp.validated = Some(TRUE) /\ res2.resp.validated = Some(TRUE)
                /\ res1.resp.flash = InvalidCredentials
                /\ res1.resp.status = 200 /\ res1.resp.template = Some("login.html")
                /\ res1.sess.user_id = None /\ res2.sess.user_id = None
                /\ res1.sess = session /\ res2.sess = session
                /\ res1.users = users /\ res2.users = users

(* A login with wrong credentials has just been refused, and from here both *)
(* an unknown username and a wrong password can be submitted                *)
C12_Witness ==
    /\ ~Truthy(session.user_id)
    /\ resp.flash = InvalidCredentials
    /\ UnknownUsernameInputs # {}
    /\ WrongPasswordInputs # {}

----------------------------------------------------------------------------
(* The dashboard of two users with several tasks each *)

MaxListed == 3

(* The user table after the two registrations of RegistrationInputs *)
TwoUsers ==
    {[id |-> 1, username |-> Str("a", 3),
      password_hash |-> generate_password_hash(Str("p", 6), "salt1")],
     [id |-> 2, username |-> Str("b", 3),
      password_hash |-> generate_password_hash(Str("p", 6), "salt1")]}

InitTwoUsers ==
    /\ now = 0
    /\ users = TwoUsers
    /\ tasks = {}
    /\ session = EmptySession
    /\ resp = NoResponse
    /\ inflight = NoneInFlight

ListedStatusParams == StatusParams \cup {"done"}

LoginStored ==
    \E username \in Usernames :
        Serve(login("POST", TRUE,
                    Some([username |-> username, password |-> Str("p", 6),
                          remember_me |-> FALSE])))

CreateListed ==
    Serve(Within(create_task("POST", TRUE, Some([BaseTaskInput EXCEPT !.is_completed = FALSE])),
                 MaxListed))

ToggleListed == \E task_id \in 1..MaxListed : Serve(toggle_complete(TRUE, task_id))

DeleteListed == \E task_id \in 1..MaxListed : Serve(delete_task(TRUE, task_id))

ViewDashboard ==
    \E status_filter \in ListedStatusParams, search \in SearchParams, page \in PageParams :
        Serve(dashboard("GET", FALSE, status_filter, search, page))

NextDashboard ==
    \/ LoginStored
    \/ Logout
    \/ CreateListed
    \/ ToggleListed
    \/ DeleteListed
    \/ ViewDashboard

SpecDashboard == InitTwoUsers /\ [][NextDashboard]_vars

(* The task passes the status filter, as the dashboard is described *)
MatchesStatus(t, status_filter) ==
    /\ status_filter = "completed" => t.is_completed
    /\ status_filter = "incomplete" => ~t.is_completed

(* The tasks of the user that the status filter selects *)
OwnMatching(user_id, status_filter) ==
    {t \in tasks : t.user_id = user_id /\ MatchesStatus(t, status_filter)}

(* C13: for every status filter the dashboard of the current user lists    *)
(* only tasks that the user owns and whose completion state matches the    *)
(* filter (all of them on the first page of an unsearched listing that     *)
(* fits one page), and reports, whatever the filter, search and page,      *)
(* total = the number of the user's tasks, completed = the number of the   *)
(* user's completed tasks, pending = total - completed.                    *)
C13_DashboardListing ==
    \A st \in ListedStatusParams, se \in SearchParams, pg \in PageParams :
        \A res \in dashboard("GET", FALSE, st, se, pg) :
            res.resp.template = Some("dashboard.html") =>
                LET uid == Val(session.user_id)
                    l == Val(res.resp.listing)
                    listed == {l.items[i] : i \in 1..Len(l.items)}
                    own == {t \in tasks : t.user_id = uid}
                IN  /\ listed \subseteq {t.id : t \in OwnMatching(uid, st)}
                    /\ Len(l.items) = Cardinality(listed)
                    /\ (se = None /\ pg = 1 /\ Cardinality(OwnMatching(uid, st)) <= per_page)
                          => listed = {t.id : t \in OwnMatching(uid, st)}
                    /\ l.total_tasks = Cardinality(own)
                    /\ l.completed_tasks = Cardinality({t \in own : t.is_completed})
                    /\ l.pending_tasks = Cardinality({t \in own : ~t.is_completed})
                    /\ l.pending_tasks = l.total_tasks - l.completed_tasks
                    /\ res.tasks = tasks /\ res.users = users

(* The dashboard has been rendered for a user who owns a completed and an *)
(* incomplete task while another user owns a task as well                 *)
C13_Witness ==
    /\ resp.template = Some("dashboard.html")
    /\ Truthy(session.user_id)
    /\ \E t1, t2, t3 \in tasks :
          /\ t1.user_id = Val(session.user_id) /\ t1.is_completed
          /\ t2.user_id = Val(session.user_id) /\ ~t2.is_completed
          /\ t3.user_id # Val(session.user_id)

----------------------------------------------------------------------------
(* Edits of one stored task *)

(* The task that create_task stores for the first user at time 0 *)
StoredTask ==
    [id |-> 1, title |-> Str("A", 1), description |-> <<>>, priority |-> "Medium",
     is_completed |-> FALSE, created_at |-> 0, completed_at |-> None,
     due_date |-> None, user_id |-> 1]

InitStoredTask ==
    /\ now = 0
    /\ users = TwoUsers
    /\ tasks = {StoredTask}
    /\ session = EmptySession
    /\ resp = NoResponse
    /\ inflight = NoneInFlight

Titles == {Str("A", 1), Str("B", 1)}

EditInputs ==
    [title : Titles, description : {<<>>}, priority : {"Medium", "High"},
     due_date : {None, DateText(MinDueDate), BlankText}, is_completed : BOOLEAN]

EditStored ==
    \E method \in Methods : \E form \in FormOf(method, EditInputs) :
        Serve(edit_task(method, method = "POST", StoredTask.id, form))

ToggleStored == Serve(toggle_complete(TRUE, StoredTask.id))

NextEdit ==
    \/ \E d \in TickSteps : Tick(d)
    \/ LoginStored
    \/ EditStored
    \/ ToggleStored

SpecEdit == InitStoredTask /\ [][NextEdit]_vars

(* The due-date field of a form that shows the stored due date: the date  *)
(* as text, or for a task without due date the empty text or no field     *)
SubmittedDue(due_date) ==
    IF due_date = None THEN {None, BlankText} ELSE {DateText(Val(due_date))}

(* The edit forms that carry the stored values of the task and the title *)
TitleOnly(t, title) ==
    {[title |-> title, description |-> t.description, priority |-> t.priority,
      due_date |-> d, is_completed |-> t.is_completed] : d \in SubmittedDue(t.due_date)}

TaskUpdated == Flash("success", "Task updated successfully.")

(* C14: an edit submission that carries the stored values and another      *)
(* title stores the task with the new title and every other field as it    *)
(* was (or, when the form does not validate, changes nothing), and a       *)
(* second such submission with the original title stores the task as it    *)
(* was before the first: priority, description, due_date, created_at,      *)
(* owner, is_completed and completed_at are those before the first edit.   *)
C14_TitleRoundTrip ==
    Truthy(session.user_id) =>
        \A t \in tasks :
            t.user_id = Val(session.user_id) =>
                \A title \in Titles \ {t.title} : \A f1 \in TitleOnly(t, title) :
                    \A res1 \in edit_task("POST", TRUE, t.id, Some(f1)) :
                        IF res1.resp.validated = Some(TRUE)
                        THEN LET t1 == [t EXCEPT !.title = title]
                             IN  /\ res1.tasks = (tasks \ {t}) \cup {t1}
                                 /\ \A f2 \in TitleOnly(t1, t.title) :
                                       TaskFormValid(f2, t1.due_date) =>
                                           EditedTask(t1, f2) = t
                        ELSE res1.tasks = tasks

(* An edit has just stored the title A for a task of high priority with a *)
(* due date that was completed earlier, and an edit of the title alone    *)
(* validates from here                                                    *)
C14_Witness ==
    /\ resp.flash = TaskUpdated
    /\ Truthy(session.user_id)
    /\ \E t \in tasks :
          /\ t.user_id = Val(session.user_id)
          /\ t.title = Str("A", 1) /\ t.priority = "High" /\ t.due_date # None
          /\ t.is_completed /\ t.completed_at # None /\ Val(t.completed_at) < now
          /\ Val(resp.data) \in TitleOnly(t, t.title)
          /\ \E f1 \in TitleOnly(t, Str("B", 1)) :
                \E res1 \in edit_task("POST", TRUE, t.id, Some(f1)) :
                    res1.resp.validated = Some(TRUE)

----------------------------------------------------------------------------
(* C16: a valid edit submission stores completed_at = the current time     *)
(* when the task was incomplete and the flag is checked, no completed_at   *)
(* when the flag is unchecked whatever the task was, and the previous      *)
(* completed_at when the task was complete and the flag is checked.        *)
C16_EditCompletedAt ==
    Truthy(session.user_id) =>
        \A t \in tasks : \A f \in EditInputs :
            \A res \in edit_task("POST", TRUE, t.id, Some(f)) :
                res.resp.validated = Some(TRUE) =>
                    \E e \in res.tasks :
                        /\ e.id = t.id
                        /\ res.tasks = (tasks \ {t}) \cup {e}
                        /\ e.is_completed = f.is_completed
                        /\ (~t.is_completed /\ f.is_completed) => e.completed_at = Some(now)
                        /\ ~f.is_completed => e.completed_at = None
                        /\ (t.is_completed /\ f.is_completed) => e.completed_at = t.completed_at

(* An edit with the flag checked has just been stored for a task that was *)
(* completed at an earlier time, and the earlier time is still stored     *)
C16_Witness ==
    /\ resp.flash = TaskUpdated
    /\ resp.data # None /\ Val(resp.data).is_completed
    /\ \E t \in tasks : t.is_completed /\ t.completed_at # None /\ Val(t.completed_at) < now

----------------------------------------------------------------------------
UnauthorizedPage(r) == r.status = 401 /\ r.template = Some("401.html")

NotFoundPage(r) == r.status = 404 /\ r.template = Some("404.html")

(* C15 as stated: a request to a protected operation from a session       *)
(* without user identifier is answered with the unauthorized (401) error   *)
(* page.                                                                   *)
C15_AsStated ==
    ~Truthy(session.user_id) =>
        \A res \in ProtectedResults :
            ~TokenMissing(res.resp) => UnauthorizedPage(res.resp)

(* C15, amended: a request to a protected operation from a session without *)
(* user identifier is never answered with the unauthorized (401) page: it  *)
(* is redirected to login with the log-in warning (a POST without a valid  *)
(* anti-forgery token is answered 400); no request in any state is         *)
(* answered with status 401 or the 401 page, and every 404 answer is the   *)
(* 404 page.                                                               *)
C15_UnauthenticatedRedirected ==
    /\ ~Truthy(session.user_id) =>
          \A res \in ProtectedResults :
              /\ ~UnauthorizedPage(res.resp)
              /\ IF TokenMissing(res.resp)
                 THEN res.resp.status = 400 /\ res.resp.template = None
                 ELSE /\ res.resp.status = 302 /\ res.resp.location = Some("login")
                      /\ res.resp.flash = Flash("warning", "Please log in to access this page.")
                      /\ res.resp.template = None
    /\ \A res \in AllResults :
          /\ res.resp.status # 401 /\ res.resp.template # Some("401.html")
          /\ res.resp.status = 404 => NotFoundPage(res.resp)

(* A request to a protected operation has just been answered by the guard *)
(* while a user and a task are stored, and a request for an unknown path  *)
(* would get the 404 page                                                 *)
C15_Witness ==
    /\ resp.stage = "guard" /\ resp.status = 302
    /\ ~Truthy(session.user_id)
    /\ users # {} /\ tasks # {}
    /\ \E res \in unmatched : NotFoundPage(res.resp)

----------------------------------------------------------------------------
(* Two tabs of one logged-in browser that edit and toggle one stored task, *)
(* each request in two steps: up to its query, and from there to its      *)
(* commit                                                                  *)

StoredTaskCompleted == [StoredTask EXCEPT !.is_completed = TRUE, !.completed_at = Some(0)]

InitTabs ==
    /\ now = 0
    /\ users = TwoUsers
    /\ tasks \in {{StoredTask}, {StoredTaskCompleted}}
    /\ session = [user_id |-> Some(1), last_activity |-> Some(isoformat(0)),
                  permanent |-> FALSE]
    /\ resp = NoResponse
    /\ inflight = NoneInFlight

TabInputs ==
    [title : Titles, description : {<<>>}, priority : {"Medium", "High"},
     due_date : {None}, is_completed : BOOLEAN]

(* The requests that have been answered *)
Answered == {q \in Tabs : inflight[q].pc = "done"}

(* The request runs up to its query, with one of the results: it is *)
(* answered there, or waits before its commit                       *)
Started(p, results) ==
    /\ inflight[p].pc = "idle"
    /\ \E res \in results :
          /\ session' = res.sess
          /\ inflight' = [inflight EXCEPT ![p] =
                 IF res.resp.stage = "loaded"
                 THEN [pc |-> "loaded", r |-> res.resp,
                       after |-> Cardinality(Answered), order |-> 0]
                 ELSE [pc |-> "done", r |-> res.resp,
                       after |-> Cardinality(Answered),
                       order |-> Cardinality(Answered) + 1]]
    /\ UNCHANGED <<now, users, tasks, resp>>

(* The request runs the hooks, the guard and the query of the task: it is *)
(* answered there, or holds the loaded task                               *)
Begin(p, r) ==
    Started(p, ProtectedRoute(r, LAMBDA sess :
                   WithOwnedTask(r, sess, LAMBDA task :
                       {Result(sess, users, tasks,
                               [r EXCEPT !.stage = "loaded", !.task = Some(task)])})))

(* The request runs from its loaded task to its commit and its response *)
Finish(p, results) ==
    \E res \in results :
        /\ tasks' = res.tasks
        /\ users' = res.users
        /\ inflight' = [inflight EXCEPT ![p] =
               [@ EXCEPT !.pc = "done", !.r = [res.resp EXCEPT !.stage = "view"],
                         !.order = Cardinality(Answered) + 1]]
        /\ UNCHANGED <<now, session, resp>>

EditLoad(p) ==
    \E form \in TabInputs :
        Begin(p, Request("edit_task", "POST", TRUE, Some(StoredTask.id), Some(form)))

EditCommit(p) ==
    /\ inflight[p].pc = "loaded"
    /\ inflight[p].r.op = "edit_task"
    /\ Finish(p, edit_task_commit(inflight[p].r, session, Val(inflight[p].r.task)))

ToggleLoad(p) ==
    Begin(p, Request("toggle_complete", "POST", TRUE, Some(StoredTask.id), None))

ToggleCommit(p) ==
    /\ inflight[p].pc = "loaded"
    /\ inflight[p].r.op = "toggle_complete"
    /\ Finish(p, toggle_complete_commit(inflight[p].r, session, Val(inflight[p].r.task)))

TickTabs ==
    /\ \E d \in TickSteps : now + d <= MaxTime /\ now' = now + d
    /\ UNCHANGED <<users, tasks, session, resp, inflight>>

NextTabs ==
    \/ TickTabs
    \/ \E p \in Tabs : EditLoad(p)
    \/ \E p \in Tabs : EditCommit(p)
    \/ \E p \in Tabs : ToggleLoad(p)
    \/ \E p \in Tabs : ToggleCommit(p)

SpecTabs == InitTabs /\ [][NextTabs]_vars

(* Both requests are valid edits that loaded the task before either *)
(* committed, and both have committed                               *)
BothEdited ==
    \A p \in Tabs :
        /\ inflight[p].pc = "done"
        /\ inflight[p].r.op = "edit_task"
        /\ inflight[p].r.task # None
        /\ inflight[p].r.validated = Some(TRUE)
        /\ inflight[p].after = 0

(* The request that committed first, and the one that committed last *)
First == CHOOSE p \in Tabs : inflight[p].order = 1
Last == CHOOSE p \in Tabs : inflight[p].order = 2

NoConflictError ==
    \A p \in Tabs : inflight[p].r.status = 302 /\ inflight[p].r.flash = TaskUpdated

(* C17 as stated: when both edit requests loaded the task before either    *)
(* committed, both complete without error and the stored task has the      *)
(* field values that the request that committed last submitted.            *)
C17_AsStated ==
    BothEdited =>
        /\ NoConflictError
        /\ \A t \in tasks :
              LET f == Val(inflight[Last].r.form)
              IN  /\ t.title = f.title
                  /\ t.description = f.description
                  /\ t.priority = f.priority
                  /\ t.is_completed = f.is_completed

(* C17, amended: when both edit requests loaded the task before either     *)
(* committed, both complete without error, and every field of the stored   *)
(* task has the value submitted by the request that committed last where   *)
(* that value differs from the one the request loaded, and the value       *)
(* submitted by the request that committed first where it does not.        *)
C17_LastChangeWins ==
    BothEdited =>
        /\ NoConflictError
        /\ \A t \in tasks :
              LET f1 == Val(inflight[First].r.form)
                  f2 == Val(inflight[Last].r.form)
                  l == Val(inflight[Last].r.task)
              IN  /\ t.title = IF f2.title # l.title THEN f2.title ELSE f1.title
                  /\ t.description = IF f2.description # l.description
                                     THEN f2.description ELSE f1.description
                  /\ t.priority = IF f2.priority # l.priority THEN f2.priority ELSE f1.priority
                  /\ t.is_completed = IF f2.is_completed # l.is_completed
                                      THEN f2.is_completed ELSE f1.is_completed
                  /\ t.id = l.id /\ t.user_id = l.user_id /\ t.created_at = l.created_at

(* Both edits have committed; the first changed the title, the last       *)
(* submitted the title it had loaded and another priority                 *)
C17_Witness ==
    /\ BothEdited
    /\ Val(inflight[First].r.form).title # Val(inflight[First].r.task).title
    /\ Val(inflight[Last].r.form).title = Val(inflight[Last].r.task).title
    /\ Val(inflight[Last].r.form).priority # Val(inflight[Last].r.task).priority
    /\ \A t \in tasks : t.title = Val(inflight[First].r.form).title

----------------------------------------------------------------------------
(* Both requests are toggles that loaded the task before either committed, *)
(* and both have committed                                                 *)
BothToggled ==
    \A p \in Tabs :
        /\ inflight[p].pc = "done"
        /\ inflight[p].r.op = "toggle_complete"
        /\ inflight[p].r.task # None
        /\ inflight[p].after = 0

(* C19: under every interleaving of the queries and commits of concurrent  *)
(* toggle and edit requests on one task, the stored task is completed if   *)
(* and only if it has a completion time, after every commit; and two       *)
(* toggles that both loaded the task before either committed leave it in   *)
(* the completion state that one toggle leaves.                            *)
C19_InterleavedCompletion ==
    /\ \A t \in tasks : t.is_completed <=> t.completed_at # None
    /\ BothToggled =>
          \A t \in tasks : \A p \in Tabs :
              t.is_completed = ~Val(inflight[p].r.task).is_completed

(* Two toggles that loaded the incomplete task before either committed    *)
(* have both committed, and the task is completed                         *)
C19_Witness ==
    /\ BothToggled
    /\ \A p \in Tabs : ~Val(inflight[p].r.task).is_completed
    /\ \A t \in tasks : t.is_completed /\ t.completed_at # None

(* An edit and a toggle that loaded the task before either committed have *)
(* both committed                                                         *)
C19_WitnessMixed ==
    /\ \A p \in Tabs : inflight[p].pc = "done" /\ inflight[p].r.task # None
                       /\ inflight[p].after = 0
    /\ inflight[First].r.op = "toggle_complete"
    /\ inflight[Last].r.op = "edit_task"
    /\ inflight[Last].r.validated = Some(TRUE)

----------------------------------------------------------------------------
(* Two registration requests, each in two steps: up to the lookup of the *)
(* username, and from there to the commit                                *)

RegisterLookup(p) ==
    \E form \in RegistrationInputs :
        Started(p, Route(Request("register", "POST", TRUE, None, Some(form)), LAMBDA sess :
                       register_query(Request("register", "POST", TRUE, None, Some(form)), sess,
                           LAMBDA rv : {Result(sess, users, tasks,
                                               [rv EXCEPT !.stage = "loaded"])})))

RegisterCommit(p) ==
    /\ inflight[p].pc = "loaded"
    /\ inflight[p].r.op = "register"
    /\ Finish(p, register_commit(inflight[p].r, session))

NextRegister ==
    \/ \E p \in Tabs : RegisterLookup(p)
    \/ \E p \in Tabs : RegisterCommit(p)

SpecRegister == Init /\ [][NextRegister]_vars

(* Both requests are valid registrations of one username that looked the *)
(* username up before either committed, and both have been answered     *)
BothRegistered ==
    /\ \A p \in Tabs :
          /\ inflight[p].pc = "done"
          /\ inflight[p].r.op = "register"
          /\ inflight[p].r.validated = Some(TRUE)
          /\ inflight[p].after = 0
    /\ Val(inflight[1].r.form).username = Val(inflight[2].r.form).username

UsernameTaken == Flash("danger", "Username already taken. Please choose another one.")

(* C18 as stated: when two valid registrations of one username that is not *)
(* stored both look the username up before either commits, exactly one     *)
(* user with the username is stored, and the other request is answered by  *)
(* the redirect to the registration form with the username-taken message,  *)
(* not by a server error.                                                  *)
C18_AsStated ==
    BothRegistered =>
        /\ Cardinality({u \in users : u.username = Val(inflight[1].r.form).username}) = 1
        /\ inflight[Last].r.status # 500
        /\ inflight[Last].r.status = 302
        /\ inflight[Last].r.location = Some("register")
        /\ inflight[Last].r.flash = UsernameTaken

----------------------------------------------------------------------------
(* C20: in every state that requests (register, login, logout, requests in *)
(* and past the inactivity window, to any route) can reach, a session that *)
(* carries a user identifier carries a last-activity timestamp that parses *)
(* and not later than the current time, and the identifier is that of a    *)
(* stored user; so every request of such a session passes the inactivity   *)
(* check, and no protected operation runs without a current user (no       *)
(* request to a protected route fails on a missing g.user).                *)
C20_SessionWellFormed ==
    /\ session.user_id # None =>
          /\ Truthy(session.user_id)
          /\ session.last_activity # None
          /\ fromisoformat(Val(session.last_activity)).ok
          /\ fromisoformat(Val(session.last_activity)).dt <= now
          /\ Cardinality(UserById(Val(session.user_id))) = 1
    /\ \A res \in AllResults :
          /\ res.resp.stage = "timeout" <=> SessionExpired /\ ~TokenMissing(res.resp)
          /\ (res.resp.stage = "view" /\ res.resp.op \notin {"index", "unmatched", "register", "login"})
                => g_user(session) # {}
          /\ res.resp.status = 500 =>
                res.resp.op = "register"
          /\ res.sess.user_id # None =>
                /\ res.sess.last_activity # None
                /\ UserById(Val(res.sess.user_id)) # {}

(* A session is logged in and active after the inactivity window of an *)
(* earlier login has passed, with two users and a task stored          *)
C20_Witness ==
    /\ Truthy(session.user_id)
    /\ session.last_activity = Some(isoformat(now))
    /\ now > idle_timeout_minutes
    /\ Cardinality(users) = 2 /\ tasks # {}
    /\ resp.stage = "view"

====
